---- MODULE Spec2Model ----
(***************************************************************************)
(* Model of the Vigenere cipher program in src/main.c.                     *)
(*                                                                         *)
(* Characters are their ASCII codes.  A C string is the sequence of its    *)
(* bytes before the terminator: C index n is element n+1 of the sequence   *)
(* and index strlen holds the terminator 0.  Buffers handed out by         *)
(* getInput are trimmed to strlen+1 bytes (src/main.c:253), so index -1    *)
(* and every index above strlen lie outside the allocation.                *)
(***************************************************************************)
EXTENDS Integers, Sequences, FiniteSets, TLC

VARIABLES pc, rawKey, key, pre, plainText, plain0,
          ck_i, ck_length, ckAccess,
          keyi, keylen, v_i, v_length, keyReads, retVal,
          rotIn, rotOff, rotOut

vars == <<pc, rawKey, key, pre, plainText, plain0,
          ck_i, ck_length, ckAccess,
          keyi, keylen, v_i, v_length, keyReads, retVal,
          rotIn, rotOff, rotOut>>

rotVars == <<rotIn, rotOff, rotOut>>

(*************************** bounds of the model ***************************)
MaxKeyLen == 3
MaxTextLen == 3

\* characters the bounded raw keys are built from: '1' 'A' 'Z' 'b'
KeyChars == {49, 65, 90, 98}
\* characters the bounded plaintexts are built from: ' ' 'Z' 'a' 'z'
TextChars == {32, 90, 97, 122}
\* values the byte in front of the key buffer, key[-1], may hold
PreBytes == {0, 80}
\* values a byte behind the key's terminator may hold
OobBytes == {0, 66, 121}
\* the characters calculateRotShift is applied to on its own
RotChars == 0..127

\* the absent (NULL) pointer; no string holds the byte -1
NULL == <<-1>>

SeqsUpTo(S, n) == UNION {[1..k -> S] : k \in 0..n}

\* "P@ss-w0rd!", "12345", "lemon", "key", "abc"
RawPassword == <<80, 64, 115, 115, 45, 119, 48, 114, 100, 33>>
RawDigits == <<49, 50, 51, 52, 53>>
KeyLemon == <<108, 101, 109, 111, 110>>
KeyKey == <<107, 101, 121>>
TextAbc == <<97, 98, 99>>
\* "Attack at dawn", "Hello, World!"
TextAttack == <<65, 116, 116, 97, 99, 107, 32, 97, 116, 32, 100, 97, 119, 110>>
TextHello == <<72, 101, 108, 108, 111, 44, 32, 87, 111, 114, 108, 100, 33>>

Scenarios == { <<RawPassword, TextAbc>>, <<RawDigits, TextAbc>>,
               <<KeyLemon, TextAttack>>, <<KeyKey, TextHello>> }

(************************** AsciiRange, lines 17-23 ************************)
uppercase_upper == 90
uppercase_lower == 65
lowercase_upper == 122
lowercase_lower == 97
range_distance == 32

(***************************** the predicates ******************************)
isUppercaseNoLowerBound(in) == in <= uppercase_upper

isUppercaseStrictUpper(in) == in >= uppercase_lower /\ in < uppercase_upper

isUppercase(in) == in >= uppercase_lower /\ in <= uppercase_upper

isLowercase(in) == in >= lowercase_lower /\ in <= lowercase_upper

inBounds(in) == IF isLowercase(in) \/ isUppercase(in) THEN TRUE ELSE FALSE

getFloor(in) == IF isLowercase(in) THEN lowercase_lower ELSE uppercase_lower

\* C's % : the remainder of a division truncated toward zero
CRem(a, b) == IF a >= 0 THEN a % b ELSE -((-a) % b)

calculateRotShiftOffsetCase(in, offset) ==
    LET inFloor == getFloor(in)
        offsetFloor == getFloor(offset)
    IN  CRem((in + offset) - (inFloor + offsetFloor), 26) + offsetFloor

calculateRotShiftNoMod(in, offset) ==
    LET inFloor == getFloor(in)
        offsetFloor == getFloor(offset)
    IN  ((in + offset) - (inFloor + offsetFloor)) + inFloor

calculateRotShift(in, offset) ==
    LET inFloor == getFloor(in)
        offsetFloor == getFloor(offset)
    IN  CRem((in + offset) - (inFloor + offsetFloor), 26) + inFloor

(******************************* correctKey ********************************)
\* the bytes strcpy(&key[n], &key[n+1]) is meant to leave: the tail moved
\* one place to the left
Shifted(s, n) == [j \in 1..(Len(s) - 1) |-> IF j <= n THEN s[j] ELSE s[j + 1]]

\* strcpy(&key[n], &key[n+1]) at line 149.  Source and destination overlap
\* as soon as two or more bytes are copied, which strcpy leaves undefined: a
\* copy that moves blocks may load a byte after the store that shifted it,
\* so a destination byte holds either the byte meant for it or the one that
\* follows that byte.  The copy of a lone terminator does not overlap.
StrcpyResults(s, n) ==
    LET len == Len(s)
        stale == {j \in (n + 1)..(len - 2) : TRUE}
    IN  { [j \in 1..(len - 1) |->
              IF j <= n THEN s[j]
              ELSE IF j \in st THEN s[j + 2] ELSE s[j + 1]] : st \in SUBSET stale }

\* lines 140-142 and 165-167: an absent key is reported and NULL returned
CorrectKeyNull ==
    /\ pc = "correctKey"
    /\ key = NULL
    /\ pc' = "vigenere"
    /\ UNCHANGED <<rawKey, key, pre, plainText, plain0, ck_i, ck_length,
                   ckAccess, keyi, keylen, v_i, v_length, keyReads, retVal>>
    /\ UNCHANGED rotVars

\* lines 144 and 146 (initialisation of the loop)
CorrectKeyBegin ==
    /\ pc = "correctKey"
    /\ key # NULL
    /\ ck_length' = Len(key)
    /\ ck_i' = 0
    /\ ckAccess' = {}
    /\ pc' = "ck_loop"
    /\ UNCHANGED <<rawKey, key, pre, plainText, plain0,
                   keyi, keylen, v_i, v_length, keyReads, retVal>>
    /\ UNCHANGED rotVars

\* lines 146-158: one iteration of the scan.  ckAccess records, for every
\* subscript key[.] the iteration evaluates, the index and the key's length
\* at that moment.
CorrectKeyIter ==
    /\ pc = "ck_loop"
    /\ ck_i < ck_length
    /\ LET c == key[ck_i + 1]
           drop == ~inBounds(c)
           i1 == IF drop THEN ck_i - 1 ELSE ck_i
           acc1 == {[idx |-> ck_i, len |-> Len(key)]}
                     \cup (IF drop THEN {[idx |-> ck_i + 1, len |-> Len(key)]} ELSE {})
       IN  \E k1 \in (IF drop THEN StrcpyResults(key, ck_i) ELSE {key}) :
              /\ ckAccess' = acc1 \cup {[idx |-> i1, len |-> Len(k1)]}
              /\ ck_length' = IF drop THEN ck_length - 1 ELSE ck_length
              /\ ck_i' = i1 + 1
              /\ IF i1 = -1
                 THEN /\ key' = k1
                      /\ pre' = IF isUppercase(pre) THEN pre + range_distance ELSE pre
                 ELSE /\ pre' = pre
                      /\ key' = IF isUppercase(k1[i1 + 1])
                                THEN [k1 EXCEPT ![i1 + 1] = @ + range_distance]
                                ELSE k1
    /\ pc' = "ck_loop"
    /\ UNCHANGED <<rawKey, plainText, plain0,
                   keyi, keylen, v_i, v_length, keyReads, retVal>>
    /\ UNCHANGED rotVars

\* lines 160-163: the buffer is resized to strlen+1 bytes, the terminator
\* rewritten in place, and the key returned
CorrectKeyReturn ==
    /\ pc = "ck_loop"
    /\ ck_i >= ck_length
    /\ pc' = "vigenere"
    /\ ckAccess' = {}
    /\ UNCHANGED <<rawKey, key, pre, plainText, plain0, ck_i, ck_length,
                   keyi, keylen, v_i, v_length, keyReads, retVal>>
    /\ UNCHANGED rotVars

(******************************** vigenere *********************************)
VigenereErrorResultPlainText == "plainText"

\* line 210
VigenereErrorResult == "NULL"

WrapKeyiPastEnd(k, n) == IF k > n THEN 0 ELSE k

\* lines 188-190
WrapKeyi(k, n) == IF k = n THEN 0 ELSE k

AdvanceKeyiOnLetter(k, letter) == IF letter THEN k + 1 ELSE k

\* line 196
AdvanceKeyi(k, letter) == k + 1

\* the values the read key[k] at line 193 may yield: a character of the key,
\* its terminator, or whatever lies behind the allocation
KeyReadValues(s, k) ==
    IF k < Len(s) THEN {s[k + 1]}
    ELSE IF k = Len(s) THEN {0}
    ELSE OobBytes

\* lines 179-181 and 201-210
VigenereNull ==
    /\ pc = "vigenere"
    /\ (plainText = NULL \/ key = NULL)
    /\ retVal' = VigenereErrorResult
    /\ pc' = "done"
    /\ UNCHANGED <<rawKey, key, pre, plainText, plain0, ck_i, ck_length,
                   ckAccess, keyi, keylen, v_i, v_length, keyReads>>
    /\ UNCHANGED rotVars

\* lines 183-187 (initialisation of the loop)
VigenereBegin ==
    /\ pc = "vigenere"
    /\ ~(plainText = NULL \/ key = NULL)
    /\ keyi' = 0
    /\ keylen' = Len(key)
    /\ v_length' = Len(plainText)
    /\ v_i' = 0
    /\ keyReads' = {}
    /\ pc' = "vig_loop"
    /\ UNCHANGED <<rawKey, key, pre, plainText, plain0, ck_i, ck_length,
                   ckAccess, retVal>>
    /\ UNCHANGED rotVars

\* lines 187-197: one iteration.  keyReads records the index of the key
\* read by the iteration, if it read one.
VigenereIter ==
    /\ pc = "vig_loop"
    /\ v_i < v_length
    /\ LET k1 == WrapKeyi(keyi, keylen)
           c == plainText[v_i + 1]
       IN  /\ IF inBounds(c)
              THEN \E b \in KeyReadValues(key, k1) :
                      /\ plainText' = [plainText EXCEPT ![v_i + 1] = calculateRotShift(c, b)]
                      /\ keyReads' = {k1}
              ELSE /\ plainText' = plainText
                   /\ keyReads' = {}
           /\ keyi' = AdvanceKeyi(k1, inBounds(c))
    /\ v_i' = v_i + 1
    /\ pc' = "vig_loop"
    /\ UNCHANGED <<rawKey, key, pre, plain0, ck_i, ck_length, ckAccess,
                   keylen, v_length, retVal>>
    /\ UNCHANGED rotVars

\* line 199
VigenereReturn ==
    /\ pc = "vig_loop"
    /\ v_i >= v_length
    /\ retVal' = "plainText"
    /\ pc' = "done"
    /\ UNCHANGED <<rawKey, key, pre, plainText, plain0, ck_i, ck_length,
                   ckAccess, keyi, keylen, v_i, v_length, keyReads>>
    /\ UNCHANGED rotVars

(********************************** main ***********************************)
\* lines 47-48: what the two getInput calls hand to main, a line of text or
\* NULL each; the byte in front of the key buffer is whatever the heap holds
Inputs ==
    ((SeqsUpTo(KeyChars, MaxKeyLen) \cup {NULL})
        \X (SeqsUpTo(TextChars, MaxTextLen) \cup {NULL}))
    \cup Scenarios

Init ==
    /\ \E in \in Inputs :
          /\ rawKey = in[1]
          /\ key = in[1]
          /\ plain0 = in[2]
          /\ plainText = in[2]
    /\ pre \in PreBytes
    /\ pc = "correctKey"
    /\ ck_i = 0 /\ ck_length = 0 /\ ckAccess = {}
    /\ keyi = 0 /\ keylen = 0 /\ v_i = 0 /\ v_length = 0 /\ keyReads = {}
    /\ retVal = "pending"
    /\ rotIn = 0 /\ rotOff = 0 /\ rotOut = -1

Next ==
    \/ CorrectKeyNull
    \/ CorrectKeyBegin
    \/ CorrectKeyIter
    \/ CorrectKeyReturn
    \/ VigenereNull
    \/ VigenereBegin
    \/ VigenereIter
    \/ VigenereReturn

Spec == Init /\ [][Next]_vars

(******************* calculateRotShift applied on its own ******************)
InitRot ==
    /\ rotIn \in RotChars
    /\ rotOff \in RotChars
    /\ rotOut = -1
    /\ pc = "rot"
    /\ rawKey = NULL /\ key = NULL /\ plain0 = NULL /\ plainText = NULL
    /\ pre = 0
    /\ ck_i = 0 /\ ck_length = 0 /\ ckAccess = {}
    /\ keyi = 0 /\ keylen = 0 /\ v_i = 0 /\ v_length = 0 /\ keyReads = {}
    /\ retVal = "pending"

ApplyRot ==
    /\ pc = "rot"
    /\ rotOut' = calculateRotShift(rotIn, rotOff)
    /\ pc' = "rot_done"
    /\ UNCHANGED <<rotIn, rotOff>>
    /\ UNCHANGED <<rawKey, key, pre, plainText, plain0, ck_i, ck_length,
                   ckAccess, keyi, keylen, v_i, v_length, keyReads, retVal>>

NextRot == ApplyRot

SpecRot == InitRot /\ [][NextRot]_vars

(***************************************************************************)
(* The properties.  The letters, case floors and the inverse rotation are  *)
(* defined here from the alphabet itself, apart from the program's         *)
(* predicates.                                                             *)
(***************************************************************************)
UpperLetters == 65..90
LowerLetters == 97..122
Letters == UpperLetters \cup LowerLetters
CaseFloor(c) == IF c \in LowerLetters THEN 97 ELSE 65

InVigenere == pc \in {"vig_loop", "done"} /\ retVal # "NULL"
AfterCorrectKey == pc \in {"vigenere", "vig_loop", "done"}

\* the letters of s in order, upper case folded to lower case
RECURSIVE Normalize(_)
Normalize(s) ==
    IF s = <<>> THEN <<>>
    ELSE LET c == Head(s)
         IN  IF c \in UpperLetters THEN <<c + 32>> \o Normalize(Tail(s))
             ELSE IF c \in LowerLetters THEN <<c>> \o Normalize(Tail(s))
             ELSE Normalize(Tail(s))

\* the inverse transform: each letter rotated back by the offset of the key
\* character of its position
Decipher(t, k) ==
    [j \in 1..Len(t) |->
        IF t[j] \in Letters
        THEN LET kc == k[((j - 1) % Len(k)) + 1]
             IN  CaseFloor(t[j]) + (((t[j] - CaseFloor(t[j])) - (kc - CaseFloor(kc))) % 26)
        ELSE t[j]]

\* C1: the key cursor starts at 0, advances by one at every plaintext
\* position, letter or not, and wraps to 0 before use when it equals the key
\* length; for a non-empty key the key character read at position n is
\* key[n mod keylen] and a letter p[n] is replaced by
\* calculateRotShift(p[n], key[n mod keylen]), other characters kept.
KeystreamCycling ==
    (InVigenere /\ keylen > 0) =>
        /\ keyi = (IF v_i = 0 THEN 0 ELSE ((v_i - 1) % keylen) + 1)
        /\ \A k \in keyReads : v_i > 0 /\ k = (v_i - 1) % keylen
        /\ \A j \in 1..v_i :
              plainText[j] = IF plain0[j] \in Letters
                             THEN calculateRotShift(plain0[j], key[((j - 1) % keylen) + 1])
                             ELSE plain0[j]

\* a pass over a key of two letters that went past a non-letter and then
\* wrapped the cursor to rotate the third character
KeystreamCyclingWitness ==
    /\ pc = "done" /\ retVal = "plainText"
    /\ keylen = 2 /\ v_i = 3
    /\ plain0[2] \notin Letters
    /\ plain0[3] \in Letters
    /\ plainText[3] # plain0[3]

\* C2: for every plaintext and key, the empty key included, every position
\* the pass has gone over that held a letter holds a letter of the same case.
CasePreservation ==
    InVigenere =>
        \A j \in 1..v_i :
            /\ plain0[j] \in UpperLetters => plainText[j] \in UpperLetters
            /\ plain0[j] \in LowerLetters => plainText[j] \in LowerLetters

\* C3: with the empty key the loop ends after length(p) iterations and every
\* key index an iteration reads is an index of a character of the key.
EmptyKeyReadsInKey ==
    (InVigenere /\ key = <<>>) =>
        /\ pc = "done" => v_i = Len(plain0)
        /\ \A k \in keyReads : 0 <= k /\ k < Len(key)

\* C4: for letters in and offset of either case, calculateRotShift yields
\* inFloor + (((in - inFloor) + (offset - offsetFloor)) mod 26) with the
\* modulo in 0..25, a letter of in's case.
RotationShift ==
    (pc = "rot_done" /\ rotIn \in Letters /\ rotOff \in Letters) =>
        LET shiftedOffset == ((rotIn - CaseFloor(rotIn)) + (rotOff - CaseFloor(rotOff))) % 26
        IN  /\ shiftedOffset \in 0..25
            /\ rotOut = CaseFloor(rotIn) + shiftedOffset
            /\ rotIn \in UpperLetters => rotOut \in UpperLetters
            /\ rotIn \in LowerLetters => rotOut \in LowerLetters

\* 'z' rotated by the upper-case key character 'Z' wraps round to 'y'
RotationShiftWitness ==
    pc = "rot_done" /\ rotIn = 122 /\ rotOff = 90 /\ rotOut = 121

\* C5: correctKey leaves exactly the letters of the raw key, in order and in
\* lower case; "P@ss-w0rd!" gives "pssword" and "12345" the empty key.
KeyNormalization ==
    (AfterCorrectKey /\ rawKey # NULL) =>
        /\ key = Normalize(rawKey)
        /\ Len(key) <= Len(rawKey)
        /\ \A j \in 1..Len(key) : key[j] \in LowerLetters
        /\ rawKey = RawPassword => key = <<112, 115, 115, 119, 111, 114, 100>>
        /\ rawKey = RawDigits => key = <<>>

\* C6 as stated: "Attack at dawn" under "lemon" gives "Lxfopv ef rgnkw".
AttackAtDawnClassic ==
    (pc = "done" /\ plain0 = TextAttack /\ key = KeyLemon) =>
        plainText = <<76, 120, 102, 111, 112, 118, 32, 101, 102, 32, 114, 103, 110, 107, 119>>

\* C6: "Attack at dawn" under "lemon" gives "Lxfopv mh oeib", of the
\* plaintext's length.
AttackAtDawn ==
    (pc = "done" /\ plain0 = TextAttack /\ key = KeyLemon) =>
        /\ retVal = "plainText"
        /\ plainText = <<76, 120, 102, 111, 112, 118, 32, 109, 104, 32, 111, 101, 105, 98>>
        /\ Len(plainText) = Len(plain0)

AttackAtDawnWitness ==
    pc = "done" /\ plain0 = TextAttack /\ key = KeyLemon /\ retVal = "plainText"

\* C7: a position that does not hold a letter is left as it was, and no
\* step of vigenere changes the key.
NonLetterPreservation ==
    /\ [](InVigenere =>
            /\ Len(plainText) = Len(plain0)
            /\ \A j \in 1..Len(plain0) :
                  plain0[j] \notin Letters => plainText[j] = plain0[j])
    /\ [][(pc \in {"vigenere", "vig_loop"}) => (key' = key)]_vars

\* a finished pass that rotated a letter and went over a non-letter
NonLetterPreservationWitness ==
    /\ pc = "done" /\ retVal = "plainText"
    /\ Len(key) > 0
    /\ \E j \in 1..Len(plain0) : plain0[j] \notin Letters
    /\ \E j \in 1..Len(plain0) : plainText[j] # plain0[j]

\* C8: for a non-empty canonical key, rotating every letter of the result
\* back by its position's key offset gives the plaintext again.
Reversibility ==
    (pc = "done" /\ retVal = "plainText" /\ Len(key) > 0) =>
        Decipher(plainText, key) = plain0

\* a finished pass in which a rotation wrapped past the end of the alphabet
ReversibilityWitness ==
    /\ pc = "done" /\ retVal = "plainText"
    /\ Len(key) = 2
    /\ \E j \in 1..Len(plain0) : plain0[j] \in Letters /\ plainText[j] < plain0[j]

\* C9: correctKey of an absent key gives an absent key; vigenere with an
\* absent plaintext or key returns NULL and changes neither buffer.
AbsentInputFailure ==
    /\ []((AfterCorrectKey /\ rawKey = NULL) => key = NULL)
    /\ []((pc = "done" /\ (plain0 = NULL \/ key = NULL)) =>
              (retVal = "NULL" /\ plainText = plain0))
    /\ [][(pc = "vigenere" /\ (plainText = NULL \/ key = NULL)) =>
              (retVal' = "NULL" /\ plainText' = plainText /\ key' = key)]_vars

\* vigenere has refused an absent key and left the plaintext as it was
AbsentInputFailureWitness ==
    /\ pc = "done" /\ retVal = "NULL"
    /\ rawKey = NULL /\ key = NULL
    /\ plain0 # NULL /\ Len(plain0) > 0 /\ plainText = plain0

\* C10: every subscript key[.] correctKey's scan evaluates lies within the
\* buffer, from 0 to the key's length at that moment.
CorrectKeyIndexInBuffer ==
    \A a \in ckAccess : 0 <= a.idx /\ a.idx <= a.len

====
